---- MODULE Spec2Model ----
(***************************************************************************)
(* Authentication and role-based access control of the Intersect FHIR API. *)
(* The user store (the MongoDB collection db.users), the bearer tokens     *)
(* issued by login, the register requests in flight between their          *)
(* existence check and their insert, one FHIR resource collection and the  *)
(* clock are the state; each endpoint and dependency of                    *)
(* app/routers/auth.py, app/services/jwt_service.py,                       *)
(* app/services/auth_service.py, app/middleware/permissions.py and of the  *)
(* resource routers is an operator, applied by one action per request.     *)
(***************************************************************************)
EXTENDS Integers, FiniteSets, Sequences, Bags, TLC

VARIABLES
    users,       \* db.users: the set of user documents
    tokens,      \* tokens issued by login, each with the identifier logged in,
                 \* its issuance time and its ttl
    pending,     \* register requests between find_one and insert_one (a bag)
    now,         \* the clock, in minutes
    resp,        \* the request the last step answered, and its response
    registered,  \* history: the user_data of every register answered 201
    Patient,     \* db.Patient: the documents of one FHIR resource collection
    unique_id_index
                 \* whether that collection has the unique index on "id"

vars == <<users, tokens, pending, now, resp, registered, Patient,
          unique_id_index>>

(***************************************************************************)
(* Bounds of the model.                                                    *)
(***************************************************************************)
\* the clock advances at most MaxTicks times ...
MaxTicks == 2
\* ... by TickMinutes minutes each time
TickMinutes == 30
\* tokens issued by login that the model keeps for later requests
MaxTokens == 1
\* requests in flight between two awaits of their handler (register between
\* find_one and insert_one; create and update of a resource likewise)
MaxPending == 2
\* documents the resource collection holds at most
MaxResources == 2

(***************************************************************************)
(* Program constants and input sets.                                       *)
(***************************************************************************)
\* Settings.access_token_expire_minutes
access_token_expire_minutes == 30
\* Settings.secret_key, and a key the server does not hold
secret_key == "server-secret"
AttackerKey == "attacker-key"
\* enum UserRole
UserRole == {"admin", "practitioner", "nurse", "scheduler", "finance"}
ADMIN == "admin"

Emails == {"a@x.com", "b@x.com"}
\* the password submitted at registration, and a one-character mutation of it
RegisterPasswords == {"Secret123!"}
Passwords == RegisterPasswords \cup {"Secret123?"}
Salts == {"s1"}
RegisterRoles == {"admin", "nurse"}
\* the roles and role sets the gated endpoints of the model require
GateRoles == {"nurse"}
GateRoleSets == {{"admin"}, {"nurse", "practitioner"}}
\* status codes a missing or non-bearer Authorization header is answered with
\* by fastapi.security.HTTPBearer (auto_error): 403 before FastAPI 0.122,
\* 401 from then on; the repository pins no version
HTTPBearerErrorStatus == {403, 401}
None == "None"

(***************************************************************************)
(* Password hasher (app.services.password_service).                        *)
(***************************************************************************)
NoHash == [scheme |-> "", salt |-> "", digest |-> <<"", "", "">>]

Digest(salt, plain) == <<"bcrypt", salt, plain>>

hash_password(plain, salt) ==
    [scheme |-> "bcrypt", salt |-> salt, digest |-> Digest(salt, plain)]

verify_password(plain, hashed) ==
    /\ hashed.scheme = "bcrypt"
    /\ hashed.digest = Digest(hashed.salt, plain)

(***************************************************************************)
(* Documents of db.users, profiles and the store's operations.             *)
(***************************************************************************)
NoDoc ==
    [_id |-> "", email |-> "", password_hash |-> NoHash, first_name |-> "",
     last_name |-> "", role |-> "", created_at |-> 0, is_active |-> FALSE]

NoProfile ==
    [_id |-> "", email |-> "", first_name |-> "", last_name |-> "",
     role |-> "", created_at |-> 0, is_active |-> FALSE]

\* the document as stored, its password_hash included
UnfilteredDocument(doc) == doc

\* the document without its password_hash
Profile(doc) ==
    [_id |-> doc._id, email |-> doc.email, first_name |-> doc.first_name,
     last_name |-> doc.last_name, role |-> doc.role,
     created_at |-> doc.created_at, is_active |-> doc.is_active]

\* find_one on a field the documents of register do not have ("username")
find_one_by_username(store, email) == {NoDoc}

\* db.users.find_one({"email": email}): any matching document, or none
find_one_by_email(store, email) ==
    IF \E u \in store : u.email = email
    THEN {u \in store : u.email = email}
    ELSE {NoDoc}

\* a find_one whose filter matches every document
find_one_by_id_any(store, id) ==
    IF store = {} THEN NoDoc ELSE CHOOSE u \in store : TRUE

\* db.users.find_one({"_id": id}); _id is the collection's primary key
find_one_by_id(store, id) ==
    IF \E u \in store : u._id = id
    THEN CHOOSE u \in store : u._id = id
    ELSE NoDoc

\* db.users.insert_one(doc): MongoDB refuses a second document with the same
\* _id (DuplicateKeyError)
insert_one_conflicts(store, doc) == \E u \in store : u._id = doc._id

\* a write that replaces the document holding the same _id
insert_one_upsert(store, doc) ==
    {u \in store : u._id # doc._id} \cup {doc}

\* the collection after db.users.insert_one(doc): one more document, or the
\* collection as it was when the insert is refused
insert_one(store, doc) ==
    IF insert_one_conflicts(store, doc) THEN store ELSE store \cup {doc}

(***************************************************************************)
(* Tokens (python-jose, HS256).                                            *)
(***************************************************************************)
NoPayload == [user_id |-> None, email |-> None, role |-> None, exp |-> 0]

sign(payload, key) ==
    <<key, payload.user_id, payload.email, payload.role, payload.exp>>

NoToken == [segments |-> 0, payload |-> NoPayload, sig |-> sign(NoPayload, "")]

jwt_encode(payload, key) ==
    [segments |-> 3, payload |-> payload, sig |-> sign(payload, key)]

NoDelta == [given |-> FALSE, minutes |-> 0]

\* create_access_token with the expiry set to the issuance time (the ttl is
\* not added)
create_access_token_no_ttl(data, expires_delta, t) ==
    jwt_encode([user_id |-> data.user_id, email |-> data.email,
                role |-> data.role, exp |-> t], secret_key)

\* jwt_service.create_access_token at clock time t
create_access_token(data, expires_delta, t) ==
    LET expire == IF expires_delta.given /\ expires_delta.minutes # 0
                  THEN t + expires_delta.minutes
                  ELSE t + access_token_expire_minutes
    IN  jwt_encode([user_id |-> data.user_id, email |-> data.email,
                    role |-> data.role, exp |-> expire], secret_key)

\* jwt.decode with the exp claim not verified
jwt_decode_no_exp(token, key, t) ==
    IF token.segments # 3
    THEN [ok |-> FALSE, error |-> "Not enough segments", payload |-> NoPayload]
    ELSE IF token.sig # sign(token.payload, key)
    THEN [ok |-> FALSE, error |-> "Signature verification failed.",
          payload |-> NoPayload]
    ELSE [ok |-> TRUE, error |-> "", payload |-> token.payload]

\* jwt.decode with the signature not verified
jwt_decode_no_signature(token, key, t) ==
    IF token.segments # 3
    THEN [ok |-> FALSE, error |-> "Not enough segments", payload |-> NoPayload]
    ELSE IF token.payload.exp < t
    THEN [ok |-> FALSE, error |-> "Signature has expired.", payload |-> NoPayload]
    ELSE [ok |-> TRUE, error |-> "", payload |-> token.payload]

\* jose.jwt.decode: the segments, then the signature, then the exp claim
jwt_decode(token, key, t) ==
    IF token.segments # 3
    THEN [ok |-> FALSE, error |-> "Not enough segments", payload |-> NoPayload]
    ELSE IF token.sig # sign(token.payload, key)
    THEN [ok |-> FALSE, error |-> "Signature verification failed.",
          payload |-> NoPayload]
    ELSE IF token.payload.exp < t
    THEN [ok |-> FALSE, error |-> "Signature has expired.", payload |-> NoPayload]
    ELSE [ok |-> TRUE, error |-> "", payload |-> token.payload]

(***************************************************************************)
(* Results of the handlers and dependencies: an HTTP status and detail,    *)
(* and the value returned on success.                                      *)
(***************************************************************************)
Fail(status, detail) ==
    [status |-> status, detail |-> detail, user |-> NoDoc,
     access_token |-> NoToken]

Ok(status, user, token) ==
    [status |-> status, detail |-> "", user |-> user, access_token |-> token]

\* jwt_service.decode_access_token: the payload, or 401 naming jose's error
decode_access_token(token, t) ==
    LET d == jwt_decode(token, secret_key, t)
    IN  IF d.ok
        THEN [status |-> 200, detail |-> "", payload |-> d.payload]
        ELSE [status |-> 401,
              detail |-> IF d.error = "Signature has expired."
                         THEN "Could not validate credentials: Signature has expired."
                         ELSE IF d.error = "Signature verification failed."
                         THEN "Could not validate credentials: Signature verification failed."
                         ELSE "Could not validate credentials: Not enough segments",
              payload |-> NoPayload]

\* get_token_data consulting the store: the token of a disabled account is
\* refused as revoked
get_token_data_revocable(token, t) ==
    LET d == decode_access_token(token, t)
    IN  IF d.status # 200 THEN d
        ELSE IF \E u \in users : u._id = d.payload.user_id /\ ~u.is_active
        THEN [status |-> 401, detail |-> "Token has been revoked",
              payload |-> NoPayload]
        ELSE d

\* jwt_service.get_token_data
get_token_data(token, t) ==
    LET d == decode_access_token(token, t)
    IN  IF d.status # 200 THEN d
        ELSE IF \/ d.payload.user_id = None
                \/ d.payload.email = None
                \/ d.payload.role = None
        THEN [status |-> 401, detail |-> "Invalid token payload",
              payload |-> NoPayload]
        ELSE d

\* An Authorization header: absent, another scheme, or a bearer token
NoAuth == [scheme |-> "", credentials |-> NoToken]
BasicAuth == [scheme |-> "Basic", credentials |-> NoToken]
Bearer(token) == [scheme |-> "Bearer", credentials |-> token]

\* security = HTTPBearer(): the header's credentials, or the framework's error
HTTPBearer(authorization, error_status) ==
    IF authorization.scheme = ""
    THEN [status |-> error_status, detail |-> "Not authenticated",
          credentials |-> NoToken]
    ELSE IF authorization.scheme # "Bearer"
    THEN [status |-> error_status,
          detail |-> "Invalid authentication credentials",
          credentials |-> NoToken]
    ELSE [status |-> 200, detail |-> "",
          credentials |-> authorization.credentials]

\* get_current_user without the is_active check
get_current_user_no_active_check(authorization, store, t, error_status) ==
    LET credentials == HTTPBearer(authorization, error_status)
    IN  IF credentials.status # 200
        THEN Fail(credentials.status, credentials.detail)
        ELSE
        LET token_data == get_token_data(credentials.credentials, t)
        IN  IF token_data.status # 200
            THEN Fail(token_data.status, token_data.detail)
            ELSE
            LET user == find_one_by_id(store, token_data.payload.user_id)
            IN  IF user = NoDoc
                THEN Fail(401, "User not found")
                ELSE Ok(200, user, NoToken)

\* get_current_user returning the user with the role claim of the token in
\* place of the stored role
get_current_user_token_role(authorization, store, t, error_status) ==
    LET current_user ==
            get_current_user_no_active_check(authorization, store, t, error_status)
    IN  IF current_user.status # 200 THEN current_user
        ELSE IF ~current_user.user.is_active
        THEN Fail(403, "User account is inactive")
        ELSE Ok(200, [current_user.user EXCEPT
                          !.role = authorization.credentials.payload.role],
                NoToken)

\* routers/auth.get_current_user, after its HTTPBearer dependency
get_current_user(authorization, store, t, error_status) ==
    LET credentials == HTTPBearer(authorization, error_status)
    IN  IF credentials.status # 200
        THEN Fail(credentials.status, credentials.detail)
        ELSE
        LET token_data == get_token_data(credentials.credentials, t)
        IN  IF token_data.status # 200
            THEN Fail(token_data.status, token_data.detail)
            ELSE
            LET user == find_one_by_id(store, token_data.payload.user_id)
            IN  IF user = NoDoc
                THEN Fail(401, "User not found")
                ELSE IF ~user.is_active
                THEN Fail(403, "User account is inactive")
                ELSE Ok(200, user, NoToken)

\* routers/auth.get_current_user_profile (GET /me)
get_current_user_profile(current_user) ==
    IF current_user.status # 200 THEN current_user
    ELSE Ok(200, current_user.user, NoToken)

\* permissions.require_role(required_role).role_checker
require_role(required_role, current_user) ==
    IF current_user.status # 200 THEN current_user
    ELSE IF current_user.user.role # required_role
    THEN Fail(403, "Access denied. Required role")
    ELSE current_user

\* role_checker with the membership test inverted
require_any_role_inverted(allowed_roles, current_user) ==
    IF current_user.status # 200 THEN current_user
    ELSE IF current_user.user.role \in allowed_roles
    THEN Fail(403, "Access denied. Required roles")
    ELSE current_user

\* permissions.require_any_role(allowed_roles).role_checker
require_any_role(allowed_roles, current_user) ==
    IF current_user.status # 200 THEN current_user
    ELSE IF current_user.user.role \notin allowed_roles
    THEN Fail(403, "Access denied. Required roles")
    ELSE current_user

\* permissions.require_admin
require_admin(current_user) ==
    IF current_user.status # 200 THEN current_user
    ELSE IF current_user.user.role # ADMIN
    THEN Fail(403, "Admin access required")
    ELSE current_user

\* login without the is_active check
login_no_active_check(user, credentials, t) ==
    IF user = NoDoc
    THEN Fail(401, "Invalid email or password")
    ELSE IF ~verify_password(credentials.password, user.password_hash)
    THEN Fail(401, "Invalid email or password")
    ELSE Ok(200, user,
            create_access_token([user_id |-> user._id, email |-> user.email,
                                 role |-> user.role], NoDelta, t))

\* login testing the active flag before the password
login_active_check_first(user, credentials, t) ==
    IF user = NoDoc
    THEN Fail(401, "Invalid email or password")
    ELSE IF ~user.is_active
    THEN Fail(403, "User account is inactive")
    ELSE IF ~verify_password(credentials.password, user.password_hash)
    THEN Fail(401, "Invalid email or password")
    ELSE Ok(200, user,
            create_access_token([user_id |-> user._id, email |-> user.email,
                                 role |-> user.role], NoDelta, t))

\* routers/auth.login, given what find_one returned
login(user, credentials, t) ==
    IF user = NoDoc
    THEN Fail(401, "Invalid email or password")
    ELSE IF ~verify_password(credentials.password, user.password_hash)
    THEN Fail(401, "Invalid email or password")
    ELSE IF ~user.is_active
    THEN Fail(403, "User account is inactive")
    ELSE Ok(200, user,
            create_access_token([user_id |-> user._id, email |-> user.email,
                                 role |-> user.role], NoDelta, t))

\* the document without "_id": email, so that the store generates the _id
\* (here one generated id per role)
user_doc_generated_id(user_data, salt, t) ==
    [_id |-> user_data.role, email |-> user_data.email,
     password_hash |-> hash_password(user_data.password, salt),
     first_name |-> user_data.first_name, last_name |-> user_data.last_name,
     role |-> user_data.role, created_at |-> t, is_active |-> TRUE]

\* a UserCreate whose role field is a plain string: every body passes
UserCreate_any_role(user_data) == TRUE

\* the validation of the request body against UserCreate, before register
\* runs: the role is a member of UserRole (the other fields of the model's
\* requests are within their length limits)
UserCreate(user_data) == user_data.role \in UserRole

\* routers/auth.register builds this document after its existence check
user_doc(user_data, salt, t) ==
    [_id |-> user_data.email, email |-> user_data.email,
     password_hash |-> hash_password(user_data.password, salt),
     first_name |-> user_data.first_name, last_name |-> user_data.last_name,
     role |-> user_data.role, created_at |-> t, is_active |-> TRUE]

\* routers/auth.register up to its insert: 400, or the document to insert
register_find(existing_user, user_data, salt, t) ==
    IF existing_user # NoDoc
    THEN Fail(400, "Email already registered")
    ELSE [status |-> 0, detail |-> "", user |-> user_doc(user_data, salt, t),
          access_token |-> NoToken]

\* routers/auth.register from its insert on; a DuplicateKeyError is unhandled
\* and main.global_exception_handler answers 500
register_insert(store, doc) ==
    IF insert_one_conflicts(store, doc)
    THEN Fail(500, "Internal server error")
    ELSE Ok(201, doc, NoToken)

(***************************************************************************)
(* The resource routers (routers/patient.py and the routers of the other   *)
(* resource types, all written from routers/_router_template.py): every    *)
(* endpoint depends on auth_service.get_current_active_user.               *)
(***************************************************************************)
\* dict.get(key): the value, or None for a key the record does not have
payload_get_sub(payload) ==
    IF "sub" \in DOMAIN payload THEN payload.sub ELSE None

\* oauth2_scheme = OAuth2PasswordBearer(...): the bearer token of the header,
\* or 401 for a missing header or another scheme
oauth2_scheme(authorization) ==
    IF authorization.scheme # "Bearer"
    THEN [status |-> 401, detail |-> "Not authenticated", token |-> NoToken]
    ELSE [status |-> 200, detail |-> "", token |-> authorization.credentials]

\* auth_service.get_user_by_username: db.users.find_one({"username": ...})
get_user_by_username(store, username) ==
    LET found == {u \in store : "username" \in DOMAIN u /\ u.username = username}
    IN  IF found = {} THEN NoDoc ELSE CHOOSE u \in found : TRUE

\* the User object get_current_user builds from the document
User(user) ==
    [username |-> user.username, email |-> user.email,
     disabled |-> IF "disabled" \in DOMAIN user THEN user.disabled ELSE FALSE]

\* a dependency that lets every request through as a development user
get_current_active_user_dev_bypass(authorization, store, t) ==
    [status |-> 200, detail |-> "",
     user |-> [username |-> "dev", email |-> "dev@x.com", disabled |-> FALSE]]

\* auth_service.get_current_user, after its oauth2_scheme dependency: every
\* failure is the one credentials_exception
auth_service_get_current_user(authorization, store, t) ==
    LET credentials_exception ==
            [status |-> 401, detail |-> "Could not validate credentials",
             user |-> NoDoc]
        bearer == oauth2_scheme(authorization)
    IN  IF bearer.status # 200
        THEN [status |-> bearer.status, detail |-> bearer.detail, user |-> NoDoc]
        ELSE
        LET d == jwt_decode(bearer.token, secret_key, t)
        IN  IF ~d.ok THEN credentials_exception
            ELSE
            LET username == payload_get_sub(d.payload)
            IN  IF username = None THEN credentials_exception
                ELSE
                LET user == get_user_by_username(store, username)
                IN  IF user = NoDoc THEN credentials_exception
                    ELSE [status |-> 200, detail |-> "", user |-> User(user)]

\* auth_service.get_current_active_user
get_current_active_user(authorization, store, t) ==
    LET current_user == auth_service_get_current_user(authorization, store, t)
    IN  IF current_user.status # 200 THEN current_user
        ELSE IF current_user.user.disabled
        THEN [status |-> 400, detail |-> "Inactive user", user |-> NoDoc]
        ELSE current_user

\* A resource as a request carries it and a response returns it: its "id"
\* ("" when the body has none) and the rest of its content.  The requests
\* of the model carry content that is valid for the resource type.
NoResource == [id |-> "", body |-> ""]

\* a document of the collection: the resource and the _id (an ObjectId, here
\* a number) insert_one gave it
NoDocument == [oid |-> 0, id |-> "", body |-> ""]

\* a handler between two awaits, create or update after its find_one: the
\* id it checked, the resource it is about to write, and the body submitted
NoFrame ==
    [op |-> "", id |-> "", resource |-> NoResource, submitted |-> NoResource]

\* the _id of the next document inserted: one no document of the collection has
ObjectId(collection) ==
    CHOOSE n \in 1..(Cardinality(collection) + 1) :
        \A d \in collection : d.oid # n

\* find_one({"id": id}): the first matching document, or none
resource_find_one(collection, id) ==
    LET found == {d \in collection : d.id = id}
    IN  IF found = {} THEN NoDocument
        ELSE CHOOSE d \in found : \A e \in found : d.oid <= e.oid

\* the projection {"_id": 0}
resource_of(document) == [id |-> document.id, body |-> document.body]

\* What a step of a handler body gives: the status answered (0 while the
\* handler goes on), the collection afterwards, the frame it goes on with,
\* and the resource returned.
HandlerResult(status, detail, collection, frame, resource) ==
    [status |-> status, detail |-> detail, collection |-> collection,
     frame |-> frame, resource |-> resource]

\* create_patient up to its insert: the id is generated when the body has
\* none, and an existing id is answered 409
create_patient(collection, patient_data, uuid) ==
    LET data == IF patient_data.id = ""
                THEN [patient_data EXCEPT !.id = uuid]
                ELSE patient_data
    IN  IF resource_find_one(collection, data.id) # NoDocument
        THEN HandlerResult(409, "already exists", collection, NoFrame, NoResource)
        ELSE HandlerResult(0, "", collection,
                 [op |-> "create_patient", id |-> data.id, resource |-> data,
                  submitted |-> patient_data],
                 NoResource)

\* an insert_one that no index constrains
create_patient_insert_unchecked(collection, unique, frame) ==
    HandlerResult(201, "",
        collection \cup {[oid |-> ObjectId(collection), id |-> frame.id,
                          body |-> frame.resource.body]},
        NoFrame, frame.resource)

\* create_patient from insert_one on: with the unique index on "id" MongoDB
\* refuses a second document of the id (DuplicateKeyError, unhandled, 500);
\* without it the document is inserted
create_patient_insert(collection, unique, frame) ==
    IF unique /\ resource_find_one(collection, frame.id) # NoDocument
    THEN HandlerResult(500, "Internal server error", collection, NoFrame,
                       NoResource)
    ELSE HandlerResult(201, "",
             collection \cup {[oid |-> ObjectId(collection), id |-> frame.id,
                               body |-> frame.resource.body]},
             NoFrame, frame.resource)

\* get_patient
get_patient(collection, patient_id) ==
    LET patient == resource_find_one(collection, patient_id)
    IN  IF patient = NoDocument
        THEN HandlerResult(404, "not found", collection, NoFrame, NoResource)
        ELSE HandlerResult(200, "", collection, NoFrame, resource_of(patient))

\* search_patients
search_patients(collection) ==
    HandlerResult(200, "", collection, NoFrame, NoResource)

\* update_patient up to its replace: a missing id is answered 404; the id of
\* the body is set to the id of the path
update_patient(collection, patient_id, patient_data) ==
    IF resource_find_one(collection, patient_id) = NoDocument
    THEN HandlerResult(404, "not found", collection, NoFrame, NoResource)
    ELSE HandlerResult(0, "", collection,
             [op |-> "update_patient", id |-> patient_id,
              resource |-> [patient_data EXCEPT !.id = patient_id],
              submitted |-> patient_data],
             NoResource)

\* a replace_one with upsert: the document is inserted when none matches
update_patient_replace_upsert(collection, frame) ==
    LET existing == resource_find_one(collection, frame.id)
        oid == IF existing = NoDocument THEN ObjectId(collection)
               ELSE existing.oid
    IN  HandlerResult(200, "",
            (collection \ {existing})
                \cup {[oid |-> oid, id |-> frame.id,
                       body |-> frame.resource.body]},
            NoFrame, frame.resource)

\* update_patient from replace_one on: the first document of the id is
\* replaced, its _id kept; when none matches nothing is written; the body is
\* returned either way
update_patient_replace(collection, frame) ==
    LET existing == resource_find_one(collection, frame.id)
    IN  IF existing = NoDocument
        THEN HandlerResult(200, "", collection, NoFrame, frame.resource)
        ELSE HandlerResult(200, "",
                 (collection \ {existing})
                     \cup {[oid |-> existing.oid, id |-> frame.id,
                            body |-> frame.resource.body]},
                 NoFrame, frame.resource)

\* a delete that removes every document of the collection
delete_patient_all(collection, patient_id) ==
    IF resource_find_one(collection, patient_id) = NoDocument
    THEN HandlerResult(404, "not found", collection, NoFrame, NoResource)
    ELSE HandlerResult(204, "", {}, NoFrame, NoResource)

\* delete_patient: delete_one removes the first document of the id;
\* deleted_count == 0 is answered 404
delete_patient(collection, patient_id) ==
    LET existing == resource_find_one(collection, patient_id)
    IN  IF existing = NoDocument
        THEN HandlerResult(404, "not found", collection, NoFrame, NoResource)
        ELSE HandlerResult(204, "", collection \ {existing}, NoFrame,
                           NoResource)

ResourceOps ==
    {"create_patient", "get_patient", "search_patients", "update_patient",
     "delete_patient"}

\* ids uuid4 generates for a body without id
GeneratedIds == {"g1"}

\* ids a request can name in its path
PatientIds == {"p1"} \cup GeneratedIds

\* the requests to the Patient router: create with a body that has an id or
\* has none; get, update and delete of an id, the body of an update carrying
\* another id than the path; search
ResourceRequests ==
    {[op |-> "create_patient", id |-> "", resource |-> d] :
         d \in {[id |-> "p1", body |-> "v1"], [id |-> "", body |-> "v1"]}}
    \cup {[op |-> op, id |-> id, resource |-> NoResource] :
              op \in {"get_patient", "delete_patient"}, id \in PatientIds}
    \cup {[op |-> "update_patient", id |-> id,
           resource |-> [id |-> "p9", body |-> "v2"]] : id \in PatientIds}
    \cup {[op |-> "search_patients", id |-> "", resource |-> NoResource]}

\* the endpoint request.op of the Patient router on a request with this
\* header, up to the first await after which the handler goes on
resource_endpoint(request, authorization, uuid, store, collection, t) ==
    LET current_user == get_current_active_user(authorization, store, t)
    IN  IF current_user.status # 200
        THEN HandlerResult(current_user.status, current_user.detail,
                           collection, NoFrame, NoResource)
        ELSE IF request.op = "create_patient"
        THEN create_patient(collection, request.resource, uuid)
        ELSE IF request.op = "get_patient"
        THEN get_patient(collection, request.id)
        ELSE IF request.op = "search_patients"
        THEN search_patients(collection)
        ELSE IF request.op = "update_patient"
        THEN update_patient(collection, request.id, request.resource)
        ELSE delete_patient(collection, request.id)

(***************************************************************************)
(* Requests and responses.                                                 *)
(***************************************************************************)
NoReq ==
    [email |-> "", password |-> "", role |-> "", authorization |-> NoAuth,
     required |-> {}, id |-> "", resource |-> NoResource]

NoResp ==
    [op |-> "none", status |-> 0, detail |-> "", user |-> NoProfile,
     access_token |-> NoToken, resource |-> NoResource, req |-> NoReq]

\* the response to request req of operation op with result r; no response
\* body carries the password hash (response_model=UserResponse)
Response(op, req, r) ==
    [op |-> op, status |-> r.status, detail |-> r.detail,
     user |-> IF r.user = NoDoc THEN NoProfile ELSE Profile(r.user),
     access_token |-> r.access_token, resource |-> NoResource, req |-> req]

\* the register requests of the model: a@x.com as either role, b@x.com as nurse
UserData ==
    {d \in [email : Emails, password : RegisterPasswords, role : RegisterRoles,
             first_name : {"Ann"}, last_name : {"Lee"}] :
        d.email = "b@x.com" => d.role = "nurse"}

\* register requests whose role is not a member of UserRole
InvalidUserData ==
    [email : {"a@x.com"}, password : RegisterPasswords, role : {"patient"},
     first_name : {"Ann"}, last_name : {"Lee"}]

RegisterRequests == UserData \cup InvalidUserData

RegisterReq(user_data) ==
    [NoReq EXCEPT !.email = user_data.email, !.password = user_data.password,
                  !.role = user_data.role]

\* what a client can put in the Authorization header: nothing, another
\* scheme, a token login issued, or such a token altered without the secret
\* (claims altered and the signature kept: a higher role and a later expiry;
\* signature bytes altered; a segment cut off)
Tampered(t) ==
    {[t EXCEPT !.payload.role = ADMIN,
               !.payload.exp = t.payload.exp + access_token_expire_minutes],
     [t EXCEPT !.sig = sign(t.payload, AttackerKey)],
     [t EXCEPT !.segments = 2]}

Issued == {i.token : i \in tokens}

AuthHeaders ==
    {NoAuth, BasicAuth}
        \cup {Bearer(t) : t \in Issued}
        \cup {Bearer(f) : f \in UNION {Tampered(t) : t \in Issued}}

MaxTime == MaxTicks * TickMinutes

(***************************************************************************)
(* The state after startup: an empty store, no token issued.               *)
(***************************************************************************)
Init ==
    /\ users = {}
    /\ tokens = {}
    /\ pending = EmptyBag
    /\ now = 0
    /\ resp = NoResp
    /\ registered = {}
    /\ Patient = {}
    /\ unique_id_index = TRUE

(***************************************************************************)
(* Actions.  resp holds the response the last step produced, so that a     *)
(* property can relate a response to the state it was computed in; Return  *)
(* clears it, and every other step is taken with resp cleared.  Return     *)
(* changes nothing else, so the steps of different requests interleave     *)
(* freely.                                                                 *)
(***************************************************************************)
\* time passes; a register request in flight completes within one clock step
Tick ==
    /\ resp = NoResp
    /\ pending = EmptyBag
    /\ now < MaxTime
    /\ now' = now + TickMinutes
    /\ resp' = NoResp
    /\ UNCHANGED <<users, tokens, pending, registered, Patient, unique_id_index>>

\* an administrator soft-disables an account (is_active := False)
DisableAccount(email) ==
    /\ resp = NoResp
    /\ \E u \in users :
        /\ u.email = email
        /\ u.is_active
        /\ users' = (users \ {u}) \cup {[u EXCEPT !.is_active = FALSE]}
    /\ resp' = NoResp
    /\ UNCHANGED <<tokens, pending, now, registered, Patient, unique_id_index>>

\* an administrator changes the role of an account in the store
ChangeRole(email, role) ==
    /\ resp = NoResp
    /\ \E u \in users :
        /\ u.email = email
        /\ u.role # role
        /\ users' = (users \ {u}) \cup {[u EXCEPT !.role = role]}
    /\ resp' = NoResp
    /\ UNCHANGED <<tokens, pending, now, registered, Patient, unique_id_index>>

\* POST /register up to the await of insert_one
RegisterFind(user_data, salt) ==
    /\ resp = NoResp
    /\ IF ~UserCreate(user_data)
       THEN /\ resp' = Response("register", RegisterReq(user_data),
                           Fail(422, "Unprocessable Entity"))
            /\ pending' = pending
       ELSE
       \E existing_user \in find_one_by_email(users, user_data.email) :
        LET r == register_find(existing_user, user_data, salt, now)
        IN  IF r.status = 400
            THEN /\ resp' = Response("register", RegisterReq(user_data), r)
                 /\ pending' = pending
            ELSE /\ BagCardinality(pending) < MaxPending
                 /\ pending' = pending (+)
                        SetToBag({[user_data |-> user_data, user_doc |-> r.user]})
                 /\ resp' = NoResp
    /\ UNCHANGED <<users, tokens, now, registered, Patient, unique_id_index>>

\* POST /register from insert_one to the response
RegisterInsert(frame) ==
    /\ resp = NoResp
    /\ BagIn(frame, pending)
    /\ pending' = pending (-) SetToBag({frame})
    /\ LET r == register_insert(users, frame.user_doc)
       IN  /\ users' = insert_one(users, frame.user_doc)
           /\ registered' = IF r.status = 201
                            THEN registered \cup {frame.user_data}
                            ELSE registered
           /\ resp' = Response("register", RegisterReq(frame.user_data), r)
    /\ UNCHANGED <<tokens, now, Patient, unique_id_index>>

\* POST /login; the issued token is remembered for later requests while
\* fewer than MaxTokens are
Login(email, password) ==
    /\ resp = NoResp
    /\ \E user \in find_one_by_email(users, email) :
        LET credentials == [email |-> email, password |-> password]
            r == login(user, credentials, now)
            issued == [token |-> r.access_token, email |-> email,
                       issued_at |-> now, ttl |-> access_token_expire_minutes]
        IN  /\ resp' = Response("login",
                           [NoReq EXCEPT !.email = email, !.password = password], r)
            /\ tokens' = IF r.status = 200
                            /\ Cardinality(tokens \cup {issued}) <= MaxTokens
                         THEN tokens \cup {issued}
                         ELSE tokens
            /\ UNCHANGED <<users, pending, now, registered, Patient, unique_id_index>>

\* GET /me
Me(authorization) ==
    /\ resp = NoResp
    /\ \E error_status \in HTTPBearerErrorStatus :
        resp' = Response("me", [NoReq EXCEPT !.authorization = authorization],
                    get_current_user_profile(
                        get_current_user(authorization, users, now, error_status)))
    /\ UNCHANGED <<users, tokens, pending, now, registered, Patient, unique_id_index>>

\* a request to an endpoint that depends on require_role(required_role)
RequireRole(authorization, required_role) ==
    /\ resp = NoResp
    /\ \E error_status \in HTTPBearerErrorStatus :
        resp' = Response("require_role",
                    [NoReq EXCEPT !.authorization = authorization,
                                  !.required = {required_role}],
                    require_role(required_role,
                        get_current_user(authorization, users, now, error_status)))
    /\ UNCHANGED <<users, tokens, pending, now, registered, Patient, unique_id_index>>

\* a request to an endpoint that depends on require_any_role(allowed_roles)
RequireAnyRole(authorization, allowed_roles) ==
    /\ resp = NoResp
    /\ \E error_status \in HTTPBearerErrorStatus :
        resp' = Response("require_any_role",
                    [NoReq EXCEPT !.authorization = authorization,
                                  !.required = allowed_roles],
                    require_any_role(allowed_roles,
                        get_current_user(authorization, users, now, error_status)))
    /\ UNCHANGED <<users, tokens, pending, now, registered, Patient, unique_id_index>>

\* a request to an endpoint that depends on require_admin
RequireAdmin(authorization) ==
    /\ resp = NoResp
    /\ \E error_status \in HTTPBearerErrorStatus :
        resp' = Response("require_admin",
                    [NoReq EXCEPT !.authorization = authorization,
                                  !.required = {ADMIN}],
                    require_admin(
                        get_current_user(authorization, users, now, error_status)))
    /\ UNCHANGED <<users, tokens, pending, now, registered, Patient, unique_id_index>>

\* the response is sent; the next request is then answered
Return ==
    /\ resp # NoResp
    /\ resp' = NoResp
    /\ UNCHANGED <<users, tokens, pending, now, registered, Patient, unique_id_index>>

\* the handlers of the Patient router in flight
HandlerFrames == {f \in BagToSet(pending) : "submitted" \in DOMAIN f}

\* ids uuid4 can still give: none a document or a handler in flight holds
FreshIds ==
    GeneratedIds \ ({d.id : d \in Patient} \cup {f.id : f \in HandlerFrames})

\* documents the collection holds or is about to receive
Inserting ==
    Cardinality(Patient)
        + BagCardinality([f \in {g \in HandlerFrames : g.op = "create_patient"}
                              |-> CopiesIn(f, pending)])

ResourceResponse(op, authorization, id, submitted, r) ==
    [NoResp EXCEPT !.op = op, !.status = r.status, !.detail = r.detail,
                   !.resource = r.resource,
                   !.req.authorization = authorization,
                   !.req.id = id, !.req.resource = submitted]

\* a request to an endpoint of the Patient router, up to the handler's
\* first await that another request can run after
ResourceRequest(request, authorization, uuid) ==
    /\ resp = NoResp
    /\ (request.op = "create_patient" /\ request.resource.id = "")
       => uuid \in FreshIds
    /\ LET r == resource_endpoint(request, authorization, uuid, users,
                                  Patient, now)
       IN  /\ Patient' = r.collection
           /\ IF r.frame = NoFrame
              THEN /\ resp' = ResourceResponse(request.op, authorization,
                                  request.id, request.resource, r)
                   /\ pending' = pending
              ELSE /\ BagCardinality(pending) < MaxPending
                   /\ r.frame.op = "create_patient" => Inserting < MaxResources
                   /\ pending' = pending (+) SetToBag({r.frame})
                   /\ resp' = NoResp
    /\ UNCHANGED <<users, tokens, now, registered, unique_id_index>>

\* create_patient from its insert_one to the response
ResourceInsert(frame) ==
    /\ resp = NoResp
    /\ BagIn(frame, pending)
    /\ frame.op = "create_patient"
    /\ pending' = pending (-) SetToBag({frame})
    /\ LET r == create_patient_insert(Patient, unique_id_index, frame)
       IN  /\ Patient' = r.collection
           /\ resp' = ResourceResponse(frame.op, NoAuth, "", frame.submitted, r)
    /\ UNCHANGED <<users, tokens, now, registered, unique_id_index>>

\* update_patient from its replace_one to the response
ResourceReplace(frame) ==
    /\ resp = NoResp
    /\ BagIn(frame, pending)
    /\ frame.op = "update_patient"
    /\ pending' = pending (-) SetToBag({frame})
    /\ LET r == update_patient_replace(Patient, frame)
       IN  /\ Patient' = r.collection
           /\ resp' = ResourceResponse(frame.op, NoAuth, frame.id,
                          frame.submitted, r)
    /\ UNCHANGED <<users, tokens, now, registered, unique_id_index>>

Next ==
    \/ Tick
    \/ Return
    \/ \E email \in Emails : DisableAccount(email)
    \/ \E user_data \in RegisterRequests, salt \in Salts :
           RegisterFind(user_data, salt)
    \/ \E frame \in BagToSet(pending) : RegisterInsert(frame)
    \/ \E email \in Emails, password \in Passwords : Login(email, password)
    \/ \E authorization \in AuthHeaders : Me(authorization)
    \/ \E authorization \in AuthHeaders, role \in GateRoles :
           RequireRole(authorization, role)
    \/ \E authorization \in AuthHeaders, roles \in GateRoleSets :
           RequireAnyRole(authorization, roles)
    \/ \E authorization \in AuthHeaders : RequireAdmin(authorization)

Spec == Init /\ [][Next]_vars

\* registration, login and the resource endpoints
NextResource ==
    \/ Tick
    \/ Return
    \/ \E email \in Emails : DisableAccount(email)
    \/ \E user_data \in RegisterRequests, salt \in Salts :
           RegisterFind(user_data, salt)
    \/ \E frame \in BagToSet(pending) : RegisterInsert(frame)
    \/ \E email \in Emails, password \in Passwords : Login(email, password)
    \/ \E request \in {r \in ResourceRequests : r.id \in {"", "p1"}},
          authorization \in AuthHeaders, uuid \in GeneratedIds :
           ResourceRequest(request, authorization, uuid)

SpecResource == Init /\ [][NextResource]_vars

(***************************************************************************)
(* The resource endpoints as an authenticated caller sees them.  No token  *)
(* of login passes get_current_active_user; the caller here holds a token  *)
(* auth_service.create_access_token made with a "sub" claim, for an        *)
(* account of the username scheme that auth_service reads.  The collection *)
(* has the unique index on "id" (Patient and the six other collections     *)
(* create_indexes covers, when it succeeded) or has none (Task and the     *)
(* other collections, or any collection when index creation failed).       *)
(***************************************************************************)
\* auth_service.create_access_token at clock time t
auth_service_create_access_token(data, expires_delta, t) ==
    LET expire == IF expires_delta.given /\ expires_delta.minutes # 0
                  THEN t + expires_delta.minutes
                  ELSE t + access_token_expire_minutes
    IN  jwt_encode([user_id |-> None, email |-> None, role |-> None,
                    sub |-> data.sub, exp |-> expire], secret_key)

\* a user document of the scheme auth_service.get_current_user reads
ServiceUser ==
    [_id |-> "u1", username |-> "ann", email |-> "ann@x.com", disabled |-> FALSE]

ServiceToken == auth_service_create_access_token([sub |-> "ann"], NoDelta, 0)

InitHandlers ==
    /\ users = {ServiceUser}
    /\ tokens = {}
    /\ pending = EmptyBag
    /\ now = 0
    /\ resp = NoResp
    /\ registered = {}
    /\ Patient = {}
    /\ unique_id_index \in BOOLEAN

NextHandlers ==
    \/ Return
    \/ \E request \in ResourceRequests,
          authorization \in {NoAuth, Bearer(ServiceToken)},
          uuid \in GeneratedIds :
           ResourceRequest(request, authorization, uuid)
    \/ \E frame \in BagToSet(pending) : ResourceInsert(frame)
    \/ \E frame \in BagToSet(pending) : ResourceReplace(frame)

SpecHandlers == InitHandlers /\ [][NextHandlers]_vars

\* registration, login, role changes and the role gates
NextRole ==
    \/ Return
    \/ \E user_data \in RegisterRequests, salt \in Salts :
           RegisterFind(user_data, salt)
    \/ \E frame \in BagToSet(pending) : RegisterInsert(frame)
    \/ \E email \in Emails, password \in Passwords : Login(email, password)
    \/ \E email \in Emails, role \in RegisterRoles : ChangeRole(email, role)
    \/ \E authorization \in AuthHeaders, role \in GateRoles :
           RequireRole(authorization, role)
    \/ \E authorization \in AuthHeaders, roles \in GateRoleSets :
           RequireAnyRole(authorization, roles)
    \/ \E authorization \in AuthHeaders : RequireAdmin(authorization)

SpecRole == Init /\ [][NextRole]_vars

(***************************************************************************)
(* Token issuance on its own: create_access_token applied to every claims  *)
(* set and ttl of the model, at every clock time.                          *)
(***************************************************************************)
\* the claims login passes as data
TokenData == [user_id : Emails, email : Emails, role : UserRole]

\* the expires_delta arguments: none, or a timedelta of so many minutes
ExpiresDeltas ==
    {NoDelta} \cup {[given |-> TRUE, minutes |-> m] : m \in {0, 15, 45}}

\* a call of create_access_token; resp holds the arguments, the clock time
\* of the call and the token returned
IssueToken(data, expires_delta) ==
    /\ resp = NoResp
    /\ resp' = [op |-> "create_access_token", data |-> data,
                expires_delta |-> expires_delta, issued_at |-> now,
                access_token |-> create_access_token(data, expires_delta, now)]
    /\ UNCHANGED <<users, tokens, pending, now, registered, Patient, unique_id_index>>

NextIssue ==
    \/ Tick
    \/ Return
    \/ \E data \in TokenData, expires_delta \in ExpiresDeltas :
           IssueToken(data, expires_delta)

SpecIssue == Init /\ [][NextIssue]_vars

(***************************************************************************)
(* Password hashing on its own: auth_service.get_password_hash and         *)
(* verify_password (passlib's CryptContext with the bcrypt scheme) applied *)
(* to passwords UserCreate accepts.  A password is a sequence of           *)
(* one-byte characters.                                                    *)
(***************************************************************************)
\* UserCreate.password: Field(..., min_length=8, max_length=100)
password_min_length == 8
password_max_length == 100

\* bcrypt reads the first 72 bytes of the password and ignores the rest
BcryptMaxBytes == 72

bcrypt_truncate(password) ==
    IF Len(password) <= BcryptMaxBytes THEN password
    ELSE SubSeq(password, 1, BcryptMaxBytes)

bcrypt_digest(salt, password) == <<"bcrypt", salt, bcrypt_truncate(password)>>

\* auth_service.get_password_hash: pwd_context.hash(password), with the salt
\* the library draws
get_password_hash(password, salt) ==
    [scheme |-> "bcrypt", salt |-> salt, digest |-> bcrypt_digest(salt, password)]

\* auth_service.verify_password: pwd_context.verify(plain_password,
\* hashed_password).  The context identifies the scheme of the hash first and
\* raises (UnknownHashError, or ValueError for a malformed bcrypt string)
\* when it cannot; raised tells whether the call raised, value is what it
\* returned otherwise.
auth_service_verify_password(plain_password, hashed_password) ==
    IF hashed_password.scheme # "bcrypt"
    THEN [raised |-> TRUE, value |-> FALSE]
    ELSE [raised |-> FALSE,
          value |-> hashed_password.digest
                        = bcrypt_digest(hashed_password.salt, plain_password)]

\* what login answers after its call of verify_password: an exception is
\* unhandled and main.global_exception_handler answers 500; False is
\* answered 401; True lets login go on (0)
login_after_verify(verified) ==
    IF verified.raised THEN Fail(500, "Internal server error")
    ELSE IF ~verified.value THEN Fail(401, "Invalid email or password")
    ELSE [status |-> 0, detail |-> "", user |-> NoDoc, access_token |-> NoToken]

\* strings in a password_hash field that are no bcrypt hash: empty, of no
\* known scheme, and a bcrypt string cut short
MalformedHashes ==
    {[scheme |-> "", salt |-> "", digest |-> <<"", "", <<>> >>],
     [scheme |-> "unknown", salt |-> "", digest |-> <<"unknown", "", <<>> >>],
     [scheme |-> "bcrypt-truncated", salt |-> "s1",
      digest |-> <<"bcrypt", "s1", <<>> >>]}

\* the passwords hashed: of the shortest and the longest length UserCreate
\* accepts, and of bcrypt's limit and one more
PasswordLengths ==
    {password_min_length, BcryptMaxBytes, BcryptMaxBytes + 1, password_max_length}

LongPasswords == {[k \in 1..n |-> "a"] : n \in PasswordLengths}

\* password with the character at position k changed
Mutate(password, k) == [password EXCEPT ![k] = "b"]

\* a call of get_password_hash; resp holds the password and its hash
HashPassword(password, salt) ==
    /\ resp = NoResp
    /\ resp' = [op |-> "get_password_hash", password |-> password,
                hashed |-> get_password_hash(password, salt),
                candidate |-> password, verified |-> FALSE, raised |-> FALSE,
                login_status |-> 0]
    /\ UNCHANGED <<users, tokens, pending, now, registered, Patient, unique_id_index>>

\* a user record read whose password_hash field holds no bcrypt hash
StoredHash(password, hashed) ==
    /\ resp = NoResp
    /\ resp' = [op |-> "stored_hash", password |-> password,
                hashed |-> hashed,
                candidate |-> password, verified |-> FALSE, raised |-> FALSE,
                login_status |-> 0]
    /\ UNCHANGED <<users, tokens, pending, now, registered, Patient, unique_id_index>>

\* a call of verify_password on the hash at hand, with the password itself
\* (k = 0) or with its mutation at position k, and what login answers to it
VerifyPassword(k) ==
    /\ resp # NoResp
    /\ resp.op \in {"get_password_hash", "stored_hash"}
    /\ k <= Len(resp.password)
    /\ LET candidate == IF k = 0 THEN resp.password
                        ELSE Mutate(resp.password, k)
           verified == auth_service_verify_password(candidate, resp.hashed)
       IN  resp' = [resp EXCEPT !.op = "verify_password",
                                !.candidate = candidate,
                                !.verified = verified.value,
                                !.raised = verified.raised,
                                !.login_status =
                                    login_after_verify(verified).status]
    /\ UNCHANGED <<users, tokens, pending, now, registered, Patient, unique_id_index>>

NextPassword ==
    \/ Return
    \/ \E password \in LongPasswords, salt \in Salts : HashPassword(password, salt)
    \/ \E password \in LongPasswords, hashed \in MalformedHashes :
           StoredHash(password, hashed)
    \/ \E k \in 0..password_max_length : VerifyPassword(k)

SpecPassword == Init /\ [][NextPassword]_vars

(***************************************************************************)
(* Properties.                                                             *)
(***************************************************************************)
ProtectedOps == {"me", "require_role", "require_any_role", "require_admin"}

\* the token the answered request presented
Presented == resp.req.authorization.credentials

IsActiveAccount(email) == \E u \in users : u.email = email /\ u.is_active

StoredRole(email) == (CHOOSE u \in users : u.email = email).role

Unexpired(i) == now <= i.issued_at + i.ttl

ExpiredDetail == "Could not validate credentials: Signature has expired."
BadSignatureDetail ==
    "Could not validate credentials: Signature verification failed."

\* C1: once register(identifier, password, role) has succeeded, a login with
\* that identifier and password succeeds while the account is active, and
\* current_user (GET /me) on the token login returned, while it is unexpired
\* and the account is active, returns a profile with the registered
\* identifier and role.
C1_RegisterLoginCurrentUser ==
    \A d \in registered :
        /\ (/\ resp.op = "login"
            /\ resp.req.email = d.email
            /\ resp.req.password = d.password
            /\ IsActiveAccount(d.email))
           => /\ resp.status = 200
              /\ resp.access_token # NoToken
              /\ resp.user.email = d.email
              /\ resp.user.role = d.role
        /\ \A i \in tokens :
            (/\ resp.op = "me"
             /\ i.email = d.email
             /\ resp.req.authorization = Bearer(i.token)
             /\ Unexpired(i)
             /\ IsActiveAccount(d.email))
            => /\ resp.status = 200
               /\ resp.user.email = d.email
               /\ resp.user.role = d.role

\* GET /me answers 200 with the registered profile to a token issued earlier
C1_Witness ==
    \E d \in registered, i \in tokens :
        /\ i.email = d.email
        /\ i.issued_at < now
        /\ resp.op = "me"
        /\ resp.req.authorization = Bearer(i.token)
        /\ resp.status = 200
        /\ resp.user.email = d.email
        /\ resp.user.role = d.role

\* C2: a request presenting a token gets past get_current_user only if the
\* token was issued by login, is unexpired, and the account it names is
\* active in the store at that moment; with a disabled account every
\* request bearing a token issued to it fails, unexpired or not.
C2_LiveActiveCheck ==
    resp.op \in ProtectedOps =>
        /\ resp.status = 200 =>
            \E i \in tokens :
                /\ resp.req.authorization = Bearer(i.token)
                /\ Unexpired(i)
                /\ IsActiveAccount(i.email)
        /\ \A i \in tokens :
            (resp.req.authorization = Bearer(i.token) /\ ~IsActiveAccount(i.email))
            => resp.status # 200

\* an unexpired token of a disabled account is refused
C2_Witness ==
    \E i \in tokens :
        /\ resp.op = "me"
        /\ resp.req.authorization = Bearer(i.token)
        /\ Unexpired(i)
        /\ ~IsActiveAccount(i.email)
        /\ resp.status = 403
        /\ resp.detail = "User account is inactive"

\* C3: a request bearing an issued token at a time later than its issuance
\* time + ttl is rejected as expired (401, "Signature has expired"), whatever
\* the endpoint and whatever the state of the account.
C3_ExpiredTokenRejected ==
    \A i \in tokens :
        (/\ resp.op \in ProtectedOps
         /\ resp.req.authorization = Bearer(i.token)
         /\ now > i.issued_at + i.ttl)
        => /\ resp.status = 401
           /\ resp.detail = ExpiredDetail
           /\ resp.user = NoProfile

\* a token of an active account is refused after its expiry
C3_Witness ==
    \E i \in tokens :
        /\ resp.op \in ProtectedOps
        /\ resp.req.authorization = Bearer(i.token)
        /\ now > i.issued_at + i.ttl
        /\ IsActiveAccount(i.email)
        /\ resp.status = 401
        /\ resp.detail = ExpiredDetail

\* C4: a bearer token whose signature is not the server secret's signature
\* over its claims is rejected as invalid (401, "Signature verification
\* failed") by /me and by every role gate, and no user is returned.
C4_TamperedTokenRejected ==
    (/\ resp.op \in ProtectedOps
     /\ resp.req.authorization.scheme = "Bearer"
     /\ Presented.segments = 3
     /\ Presented.sig # sign(Presented.payload, secret_key))
    => /\ resp.status = 401
       /\ resp.detail = BadSignatureDetail
       /\ resp.user = NoProfile

\* a nurse's unexpired token with the role claim altered to admin is refused
\* by the admin gate
C4_Witness ==
    \E i \in tokens :
        /\ resp.op = "require_admin"
        /\ Unexpired(i)
        /\ IsActiveAccount(i.email)
        /\ i.token.payload.role = "nurse"
        /\ Presented.payload.role = ADMIN
        /\ Presented.sig = i.token.sig
        /\ resp.status = 401
        /\ resp.detail = BadSignatureDetail

\* C5: for an authenticated caller (issued unexpired token, active account)
\* require_role and require_any_role allow iff the caller's role is the
\* required role, or one of the required roles, and answer 403 otherwise.
C5_RoleGateAllowIff ==
    \A i \in tokens :
        (/\ resp.op \in {"require_role", "require_any_role"}
         /\ resp.req.authorization = Bearer(i.token)
         /\ Unexpired(i)
         /\ IsActiveAccount(i.email))
        => IF StoredRole(i.email) \in resp.req.required
           THEN resp.status = 200
           ELSE resp.status = 403

\* a nurse is allowed through the gate requiring {nurse, practitioner}
C5_Witness ==
    /\ resp.op = "require_any_role"
    /\ resp.req.required = {"nurse", "practitioner"}
    /\ resp.status = 200
    /\ resp.user.role = "nurse"

\* a request that presents an issued token that has not expired
ValidTokenPresented ==
    \E i \in tokens : resp.req.authorization = Bearer(i.token) /\ Unexpired(i)

\* an authenticated caller whose role the gate of the request does not admit
RoleDenied ==
    \E i \in tokens :
        /\ resp.op \in ProtectedOps \ {"me"}
        /\ resp.req.authorization = Bearer(i.token)
        /\ Unexpired(i)
        /\ IsActiveAccount(i.email)
        /\ StoredRole(i.email) \notin resp.req.required

\* C6: a request denied by the role gate for insufficient role is answered
\* 403, a request with no valid token is answered 401 and never 403.
C6_ForbiddenVsUnauthenticated ==
    resp.op \in ProtectedOps =>
        /\ RoleDenied => resp.status = 403
        /\ ~ValidTokenPresented => (resp.status = 401 /\ resp.status # 403)

\* C7: every rejected login (identifier not registered, password mismatch,
\* account inactive) has the same status and the same message.
C7_LoginRejectsAlike ==
    (resp.op = "login" /\ resp.status # 200)
    => (resp.status = 401 /\ resp.detail = "Invalid email or password")

\* C8: login returns a token only when the store holds a user with the
\* submitted identifier who is active and whose stored hash the submitted
\* password verifies against, and the token's role claim is that user's
\* stored role; a rejected login returns no token.
C8_TokenOnlyForActiveVerifiedUser ==
    resp.op = "login" =>
        IF resp.status = 200
        THEN /\ resp.access_token # NoToken
             /\ \E u \in users :
                    /\ u.email = resp.req.email
                    /\ u.is_active
                    /\ verify_password(resp.req.password, u.password_hash)
                    /\ resp.access_token.payload.user_id = u._id
                    /\ resp.access_token.payload.role = u.role
        ELSE resp.access_token = NoToken

\* a login that returned a token with the role claim nurse
C8_Witness ==
    /\ resp.op = "login"
    /\ resp.status = 200
    /\ resp.access_token.payload.role = "nurse"
    /\ resp.access_token.payload.email = resp.req.email

\* C9: a register that starts after a register of the same identifier
\* succeeded is answered 400 "Email already registered" by its existence
\* check, and leaves the store (hence the existing record) unchanged.
C9_LaterRegisterFails ==
    [][\A d \in UserData, salt \in Salts :
          (RegisterFind(d, salt) /\ (\E r \in registered : r.email = d.email))
          => /\ resp'.op = "register"
             /\ resp'.status = 400
             /\ resp'.detail = "Email already registered"
             /\ users' = users
             /\ pending' = pending]_vars

\* a second register of a registered identifier, with another role, was
\* refused and the stored role is still the registered one
C9_Witness ==
    \E r \in registered :
        /\ resp.op = "register"
        /\ resp.status = 400
        /\ resp.req.email = r.email
        /\ resp.req.role # r.role
        /\ StoredRole(r.email) = r.role
        /\ Cardinality(users) = 2

\* C10: the user store holds at most one document per identifier (email),
\* however the steps of concurrent registers interleave.
C10_UniqueIdentifier ==
    \A u1 \in users, u2 \in users : u1.email = u2.email => u1 = u2

\* two registers of one identifier both passed the existence check; the
\* second insert was refused and the store holds one document for it
C10_Witness ==
    /\ resp.op = "register"
    /\ resp.status = 500
    /\ Cardinality({u \in users : u.email = resp.req.email}) = 1

\* the handler body of a resource endpoint ran: the answer is neither of the
\* dependency's refusals but one of the statuses the bodies answer
HandlerEntered == resp.op \in ResourceOps /\ resp.status \in {200, 201, 204, 404, 409}

\* the token verifies now: three segments, signed with the server's key,
\* not expired
Verifies(token) ==
    /\ token.segments = 3
    /\ token.sig = sign(token.payload, secret_key)
    /\ now <= token.payload.exp

\* the token names a user of the store, by either identifier scheme, and
\* that user is active
NamesActiveUser(token) ==
    \E u \in users :
        /\ \/ u._id = token.payload.user_id
           \/ /\ "sub" \in DOMAIN token.payload
              /\ "username" \in DOMAIN u
              /\ u.username = token.payload.sub
        /\ u.is_active
        /\ ("disabled" \in DOMAIN u) => ~u.disabled

\* C11: an operation of a resource router runs its handler body, and so
\* reads or modifies the store, only if the request carries a bearer token
\* that verifies and names an existing, active user.
C11_ResourceNeedsAuthenticatedUser ==
    HandlerEntered
    => /\ resp.req.authorization.scheme = "Bearer"
       /\ Verifies(Presented)
       /\ NamesActiveUser(Presented)

\* create_patient with a token whose claims were altered is refused and
\* db.Patient is untouched
C11_Witness ==
    /\ resp.op = "create_patient"
    /\ \E i \in tokens :
        /\ Presented \in Tampered(i.token)
        /\ resp.req.authorization.scheme = "Bearer"
    /\ resp.status = 401
    /\ Patient = {}

\* C12: a token a successful login returned, presented as a bearer token to
\* a resource endpoint while it is unexpired and its account is active, is
\* accepted: the handler body runs, the request is not refused as
\* unauthenticated.
C12_LoginTokenAcceptedByResources ==
    \A i \in tokens :
        (/\ resp.op \in ResourceOps
         /\ resp.req.authorization = Bearer(i.token)
         /\ Unexpired(i)
         /\ IsActiveAccount(i.email))
        => /\ resp.status # 401
           /\ HandlerEntered

\* the login request names no registered identifier, or a password other
\* than the registered one
InvalidCredentials ==
    /\ resp.op = "login"
    /\ ~\E u \in users :
           /\ u.email = resp.req.email
           /\ verify_password(resp.req.password, u.password_hash)

\* the request presents a bearer token that is expired, carries a bad
\* signature or is malformed
TokenProblem ==
    /\ resp.op \in ProtectedOps
    /\ resp.req.authorization.scheme = "Bearer"
    /\ ~Verifies(Presented)

\* a well-formed register request for an identifier registered before is
\* refused
DuplicateRegistration ==
    /\ resp.op = "register"
    /\ resp.req.role \in UserRole
    /\ resp.status # 201
    /\ \E u \in users : u.email = resp.req.email

\* C13: each authentication failure is answered with its specified code:
\* invalid credentials and token problems (expired, bad signature,
\* malformed) 401, insufficient role 403, registering an already registered
\* identifier 409.
C13_FailureCodes ==
    /\ InvalidCredentials => resp.status = 401
    /\ TokenProblem => resp.status = 401
    /\ RoleDenied => resp.status = 403
    /\ DuplicateRegistration => resp.status = 409

\* the tokens a client can present now
Presentable == Issued \cup UNION {Tampered(t) : t \in Issued}

\* why a token does not verify now: malformed, a signature the server's key
\* did not make, or expired
RejectCause(token) ==
    IF token.segments # 3 THEN "malformed"
    ELSE IF token.sig # sign(token.payload, secret_key) THEN "signature"
    ELSE IF token.payload.exp < now THEN "expired"
    ELSE "none"

\* C14: a token is rejected with a reason that tells the three causes apart:
\* of two tokens rejected for different causes (expired, invalid or tampered
\* signature, malformed), the reasons answered differ, both where
\* jwt_service.decode_access_token verifies (GET /me and the role gates) and
\* where auth_service.get_current_user does (the resource endpoints).
C14_DistinctRejectReasons ==
    \A a, b \in Presentable :
        (/\ RejectCause(a) # "none"
         /\ RejectCause(b) # "none"
         /\ RejectCause(a) # RejectCause(b))
        => /\ decode_access_token(a, now).detail
                  # decode_access_token(b, now).detail
           /\ auth_service_get_current_user(Bearer(a), users, now).detail
                  # auth_service_get_current_user(Bearer(b), users, now).detail

\* C15: for every claims set and every ttl passed to create_access_token, a
\* ttl of zero included, the exp claim of the token is the issuance time plus
\* that ttl; the default access_token_expire_minutes is used only when no
\* ttl is passed.
C15_ExpiryIsIssuancePlusTtl ==
    resp.op = "create_access_token"
    => resp.access_token.payload.exp
           = resp.issued_at
               + (IF resp.expires_delta.given
                  THEN resp.expires_delta.minutes
                  ELSE access_token_expire_minutes)

\* C16: register is the only operation of the authentication layer that
\* changes db.users: a step that changes it is a register answered 201 that
\* adds exactly one record and changes no other (or the administrator
\* disabling an account, which is not an operation of the layer); login,
\* GET /me and every role gate leave it unchanged, and no step removes a
\* record.
C16_OnlyRegisterChangesStore ==
    [][/\ (users' # users)
          => \/ \E email \in Emails : DisableAccount(email)
             \/ /\ resp'.op = "register"
                /\ resp'.status = 201
                /\ \E doc \in users' \ users :
                    /\ users' = users \cup {doc}
                    /\ doc.email = resp'.req.email
       /\ (resp'.op \in {"login"} \cup ProtectedOps) => users' = users
       /\ \A u \in users : \E v \in users' : v._id = u._id]_vars

\* a register answered 201 beside the record of an earlier one, which a
\* login and a role gate since have left in the store
C16_Witness ==
    /\ resp.op = "register"
    /\ resp.status = 201
    /\ tokens # {}
    /\ \E u, v \in users :
        /\ u.email = resp.req.email
        /\ v.email # u.email
        /\ v.created_at < u.created_at

\* C17: the result of verifying a token depends on the token, the server
\* secret and the clock only: whatever the user store holds (accounts
\* registered or disabled since the token was issued), a request presenting
\* a bearer token is refused as unauthenticated exactly when the token does
\* not verify now, so a token is not revoked before its expiry.
C17_VerifyIgnoresStore ==
    (resp.op \in ProtectedOps /\ resp.req.authorization.scheme = "Bearer")
    => (resp.status = 401 <=> ~Verifies(Presented))

\* the token of an account disabled since login still verifies: the role
\* gate refuses the request for the inactive account, not for the token
C17_Witness ==
    \E i \in tokens :
        /\ resp.op = "require_admin"
        /\ resp.req.authorization = Bearer(i.token)
        /\ Verifies(i.token)
        /\ ~IsActiveAccount(i.email)
        /\ Cardinality(users) = 2
        /\ resp.status = 403
        /\ resp.detail = "User account is inactive"

\* the text fields of a document or profile
TextFields(r) == {r._id, r.email, r.first_name, r.last_name, r.role}

C19_RolesWithinUserRole ==
    /\ \A u \in users : u.role \in UserRole
    /\ \A frame \in BagToSet(pending) : frame.user_doc.role \in UserRole
    /\ (resp.op = "register" /\ resp.req.role \notin UserRole)
       => /\ resp.status = 422
          /\ resp.user = NoProfile

\* a register request with the role "patient" was rejected, beside a stored
\* record of the same identifier with a role of the set
C19_Witness ==
    /\ resp.op = "register"
    /\ resp.req.role = "patient"
    /\ resp.status = 422
    /\ \E u \in users : u.email = resp.req.email /\ u.role \in UserRole

\* candidate differs from password in exactly one character
SingleCharacterMutation(candidate, password) ==
    /\ Len(candidate) = Len(password)
    /\ Cardinality({k \in 1..Len(password) : candidate[k] # password[k]}) = 1

\* C20: for every password p accepted at registration (8 to 100
\* characters), verify(p, hash(p)) is true, and verify(p', hash(p)) is false
\* for every p' that differs from p in a single character, at any position.
C20_VerifySymmetricAndMutationFails ==
    (/\ resp.op = "verify_password"
     /\ \E salt \in Salts : resp.hashed = get_password_hash(resp.password, salt)
     /\ Len(resp.password) \in password_min_length..password_max_length)
    => /\ (resp.candidate = resp.password) => resp.verified
       /\ SingleCharacterMutation(resp.candidate, resp.password)
          => ~resp.verified

\* C22: when two registers of one identifier interleave so that both
\* existence checks run before either insert, the one that does not succeed
\* fails as a duplicate identifier ("Email already registered") and with no
\* other kind of failure: a well-formed register is answered 201 or the
\* duplicate-identifier refusal.
C22_RacingRegisterFailsAsDuplicate ==
    (resp.op = "register" /\ resp.req.role \in UserRole)
    => \/ resp.status = 201
       \/ /\ resp.status \in {400, 409}
          /\ resp.detail = "Email already registered"

RoleGates == {"require_role", "require_any_role", "require_admin"}

\* C28: the role gates decide on the role of the user's store record at the
\* time of the request, not on the role claim of the token: when the stored
\* role differs from the role in the unexpired token presented, the gate
\* allows exactly when the stored role is admitted, and the user it passes
\* on carries the stored role.
C28_GateFollowsStoredRole ==
    \A i \in tokens :
        (/\ resp.op \in RoleGates
         /\ resp.req.authorization = Bearer(i.token)
         /\ Unexpired(i)
         /\ IsActiveAccount(i.email)
         /\ StoredRole(i.email) # i.token.payload.role)
        => /\ resp.status = 200 <=> StoredRole(i.email) \in resp.req.required
           /\ resp.status = 403 <=> StoredRole(i.email) \notin resp.req.required
           /\ resp.status = 200 => resp.user.role = StoredRole(i.email)

\* a token issued to an admin since made a nurse is refused by require_admin
C28_Witness ==
    \E i \in tokens :
        /\ resp.op = "require_admin"
        /\ resp.req.authorization = Bearer(i.token)
        /\ i.token.payload.role = ADMIN
        /\ StoredRole(i.email) = "nurse"
        /\ resp.status = 403

\* the password submitted is the one registered for the identifier submitted
PasswordMatches ==
    \E u \in users :
        /\ u.email = resp.req.email
        /\ verify_password(resp.req.password, u.password_hash)

\* C29: a login whose password does not match is answered 401 "Invalid
\* email or password", with no token and no profile, whether the identifier
\* is unregistered, of an active account or of an inactive one; that an
\* account is inactive is told only to a caller who supplied its password.
C29_MismatchHidesInactive ==
    resp.op = "login"
    => /\ ~PasswordMatches
          => /\ resp.status = 401
             /\ resp.detail = "Invalid email or password"
             /\ resp.access_token = NoToken
             /\ resp.user = NoProfile
       /\ resp.detail = "User account is inactive" => PasswordMatches

\* a login with a wrong password on a disabled account is answered as any
\* mismatch is
C29_Witness ==
    /\ resp.op = "login"
    /\ \E u \in users : u.email = resp.req.email /\ ~u.is_active
    /\ ~PasswordMatches
    /\ resp.status = 401
    /\ resp.detail = "Invalid email or password"

\* C30: every user record register created has its store key _id equal to
\* its email, so the record get_current_user finds by the user_id claim of a
\* token is the record login found by email when it issued the token: GET
\* /me on the token answers with the profile of the identifier logged in.
C30_IdIsEmail ==
    /\ \A u \in users : u._id = u.email
    /\ \A i \in tokens :
        /\ i.token.payload.user_id = i.email
        /\ find_one_by_id(users, i.token.payload.user_id)
               \in find_one_by_email(users, i.email)
        /\ (/\ resp.op = "me"
            /\ resp.req.authorization = Bearer(i.token)
            /\ resp.status = 200)
           => /\ resp.user._id = i.email
              /\ resp.user.email = i.email

\* with two records in the store, GET /me on the token of the one registered
\* second answers with that record
C30_Witness ==
    \E i \in tokens, u, v \in users :
        /\ u.email # v.email
        /\ u.created_at <= v.created_at
        /\ i.email = "b@x.com"
        /\ resp.op = "me"
        /\ resp.req.authorization = Bearer(i.token)
        /\ resp.status = 200
        /\ resp.user._id = "b@x.com"

\* C21: verify_password never raises: for every plaintext and every stored
\* hash string, a malformed or unrecognised one included, it returns (false
\* when the hash is not that of the plaintext), so login answers a malformed
\* stored hash as it answers a password mismatch, with 401.
C21_VerifyNeverThrows ==
    resp.op = "verify_password"
    => /\ ~resp.raised
       /\ resp.hashed \in MalformedHashes
          => /\ ~resp.verified
             /\ resp.login_status = 401

\* the header of the authenticated caller of the resource endpoints
Authenticated == Bearer(ServiceToken)

\* a create request for an id the collection holds is answered 409 and
\* changes nothing
CreateOfExistingIdConflicts ==
    \A request \in ResourceRequests, uuid \in GeneratedIds :
        (/\ ResourceRequest(request, Authenticated, uuid)
         /\ request.op = "create_patient"
         /\ \E d \in Patient : d.id = request.resource.id)
        => /\ resp'.status = 409
           /\ Patient' = Patient
           /\ pending' = pending

\* a create answered 201 has inserted exactly one document, the resource
\* submitted, under the id of the body or, when the body had none, under a
\* generated id no document had
CreateInsertsOne ==
    (resp'.op = "create_patient" /\ resp'.status = 201)
    => \E d \in Patient' \ Patient :
        /\ Patient' = Patient \cup {d}
        /\ resource_of(d) = resp'.resource
        /\ d.body = resp'.req.resource.body
        /\ IF resp'.req.resource.id = ""
           THEN d.id \in GeneratedIds /\ \A e \in Patient : e.id # d.id
           ELSE d.id = resp'.req.resource.id

\* get of the id of a create just answered 201 returns the resource created
CreateThenGet ==
    (resp'.op = "create_patient" /\ resp'.status = 201)
    => LET r == get_patient(Patient', resp'.resource.id)
       IN  r.status = 200 /\ r.resource = resp'.resource

\* C23: create with an id the collection holds fails with 409 and leaves the
\* collection unchanged; create with no id assigns a freshly generated id
\* and inserts exactly one resource; after a successful create, get with
\* that id returns the created resource.
C23_CreateConflictInsertGet ==
    [][CreateOfExistingIdConflicts /\ CreateInsertsOne /\ CreateThenGet]_vars

\* an update request for an id the collection does not hold is answered 404
\* and changes nothing
UpdateOfMissingIdNotFound ==
    \A request \in ResourceRequests, uuid \in GeneratedIds :
        (/\ ResourceRequest(request, Authenticated, uuid)
         /\ request.op = "update_patient"
         /\ \A d \in Patient : d.id # request.id)
        => /\ resp'.status = 404
           /\ Patient' = Patient
           /\ pending' = pending

\* no answer of update leaves a document the collection did not hold
UpdateNeverCreates ==
    resp'.op = "update_patient"
    => {d.oid : d \in Patient'} \subseteq {d.oid : d \in Patient}

\* an update answered 200 for an id the collection holds has replaced one
\* document of that id by the submitted body under the id of the path, and
\* nothing else; get of the id returns it
UpdateReplaces ==
    (/\ resp'.op = "update_patient"
     /\ resp'.status = 200
     /\ \E d \in Patient : d.id = resp'.req.id)
    => LET stored == [id |-> resp'.req.id, body |-> resp'.req.resource.body]
       IN  /\ resp'.resource = stored
           /\ \E old \in Patient :
                  /\ old.id = resp'.req.id
                  /\ Patient' = (Patient \ {old})
                        \cup {[oid |-> old.oid, id |-> stored.id,
                               body |-> stored.body]}
           /\ get_patient(Patient', resp'.req.id).resource = stored

\* C24: update of an id that does not exist fails with 404 and leaves the
\* collection unchanged (update never creates a resource); update of an
\* existing id replaces the entire stored resource with the submitted body,
\* whose id is forced to the id of the path even if the body carries a
\* different id, and changes no other resource.
C24_UpdateReplacesOrNotFound ==
    [][UpdateOfMissingIdNotFound /\ UpdateNeverCreates /\ UpdateReplaces]_vars

\* an update whose body carried another id was answered 200 and the document
\* of the path's id holds the submitted content
C24_Witness ==
    /\ resp.op = "update_patient"
    /\ resp.status = 200
    /\ resp.req.resource.id # resp.req.id
    /\ \E d \in Patient : d.id = resp.req.id /\ d.body = resp.req.resource.body
    /\ \A d \in Patient : d.id # resp.req.resource.id

\* a delete request for an id the collection does not hold is answered 404
\* and changes nothing
DeleteOfMissingIdNotFound ==
    \A request \in ResourceRequests, uuid \in GeneratedIds :
        (/\ ResourceRequest(request, Authenticated, uuid)
         /\ request.op = "delete_patient"
         /\ \A d \in Patient : d.id # request.id)
        => /\ resp'.status = 404
           /\ Patient' = Patient
           /\ pending' = pending

\* a delete answered 204 has removed one document of the id and no other
DeleteRemovesOne ==
    (resp'.op = "delete_patient" /\ resp'.status = 204)
    => \E d \in Patient : d.id = resp'.req.id /\ Patient' = Patient \ {d}

\* get, update and delete of the id of a delete just answered 204 find
\* nothing
DeleteThenNotFound ==
    (resp'.op = "delete_patient" /\ resp'.status = 204)
    => /\ get_patient(Patient', resp'.req.id).status = 404
       /\ \A request \in ResourceRequests :
              request.op = "update_patient"
              => update_patient(Patient', resp'.req.id,
                                request.resource).status = 404
       /\ delete_patient(Patient', resp'.req.id).status = 404

\* C25: delete of an existing id removes that resource and no other, after
\* which get, update and delete of that id all fail with 404 until the id
\* is created again; delete of an id that does not exist fails with 404 and
\* leaves the collection unchanged.
C25_DeleteRemovesThenNotFound ==
    [][DeleteOfMissingIdNotFound /\ DeleteRemovesOne /\ DeleteThenNotFound]_vars

\* C26: in a resource collection, under any interleaving of concurrent
\* create, update and delete operations, at most one stored resource has a
\* given id, with or without the unique index on id.
C26_OneResourcePerId ==
    \A d, e \in Patient : d.id = e.id => d = e

\* C27: an update that returns success has stored the submitted resource:
\* when update of id X answers with the resource, the collection holds a
\* resource with id X and the submitted content, whatever ran between the
\* update's existence check and its replace.
C27_SuccessfulUpdateIsStored ==
    (resp.op = "update_patient" /\ resp.status = 200)
    => \E d \in Patient :
           d.id = resp.req.id /\ d.body = resp.req.resource.body
====
